---- MODULE Spec2Model ----
(***************************************************************************)
(* Model of WebContent/tcBundle/js/slide_step/step_ctrl.js: the Animation  *)
(* object (prepare / play / finish and its ready / played flags) and the   *)
(* StepCtrl singleton (steps, currentStep, init / nextStep / previousStep).*)
(*                                                                         *)
(* The page is modelled by what the script reads and writes of it: per     *)
(* target element its CSS visibility, display, opacity, top / left offset, *)
(* SVG transform, inner html and the transitions still in flight on it.    *)
(* Every handler runs to its end in one step (the script is single         *)
(* threaded); a transition started by a handler ends later, in a step of   *)
(* its own (TransitionEnd), or at once when finish() forces it.            *)
(***************************************************************************)
EXTENDS Integers, Sequences, FiniteSets, TLC

VARIABLES
    steps,        \* StepCtrl.steps: sequence of [type, animation]
    currentStep,  \* StepCtrl.currentStep (0-based, as in the script)
    anims,        \* the Animation objects: id -> fields
    dom,          \* the page: target -> element state
    events,       \* calls made and effects applied by the last handler, in order
    lastOp,       \* the last handler run: [op, from (cursor before it), anim]
    trail         \* the calls made on a lone Animation object since it was
                  \* constructed, in order (kept only where a page holds one)

vars == <<steps, currentStep, anims, dom, events, lastOp, trail>>

----------------------------------------------------------------------------
(* Bounds of the model *)

\* longest step list
MaxSteps == 2
\* most children of a "set" animation
MaxChildren == 1
\* geometry of the page the moveIn animation computes with
NatTop == 1
NatLeft == 1
ElHeight == 1
ElWidth == 1
WinHeight == 3
WinWidth == 3

----------------------------------------------------------------------------
(* Values *)

Undefined == "undefined"

\* the kinds play() switches on, and one it does not know
SupportedKinds ==
    {"fadeIn", "fadeOut", "moveIn", "svg.fadeIn", "svg.move", "set",
     "changeText", "custom"}
UnsupportedKind == "zoom"
Kinds == SupportedKinds \cup {UnsupportedKind}

\* the step types nextStep() / previousStep() switch on, and one they do not know
UnknownStep == "jump"
StepTypes == {"prevPage", "nextPage", "anim", UnknownStep}

Directions == {"up", "down", "left", "right"}

\* content of a target before any script ran, and the text of a changeText
OriginalText == "T0"
NewText == "hi"

\* type.startsWith("svg")
IsSvg(type) == type \in {"svg.fadeIn", "svg.move"}

\* an element as authored
NewElement ==
    [visibility |-> "visible", display |-> "shown", opacity |-> 1,
     top |-> 0, left |-> 0, transform |-> "initial",
     html |-> OriginalText, queue |-> <<>>]

\* new Animation(type, target, duration, easing, options)
NewAnimation(type, target, options) ==
    [type |-> type, target |-> target,
     late_prepare |-> options.late_prepare,
     no_reverse |-> options.no_reverse,
     from |-> options.from,
     text |-> options.text,
     animations |-> options.animations,
     ready |-> FALSE, played |-> FALSE,
     old_text |-> Undefined]

----------------------------------------------------------------------------
(* The world a handler runs in: w = [anims, dom, events, threw].            *)
(* threw: an exception is propagating; every later statement is skipped.    *)

Log(w, e) == [w EXCEPT !.events = Append(@, e)]

Throw(w, a) == [Log(w, <<"throw", a>>) EXCEPT !.threw = TRUE]

\* the end state of a transition
EndState(el, kind) ==
    CASE kind = "fadeIn"     -> [el EXCEPT !.display = "shown", !.opacity = 1]
      [] kind = "moveIn"     -> [el EXCEPT !.top = 0, !.left = 0]
      [] kind = "svg.fadeIn" -> [el EXCEPT !.opacity = 1]
      [] kind = "svg.move"   -> [el EXCEPT !.transform = "to"]
      [] OTHER               -> el

RECURSIVE EndAll(_, _)
EndAll(el, q) ==
    IF q = <<>> THEN el ELSE EndAll(EndState(el, Head(q)), Tail(q))

\* $(target).finish(): every jQuery transition of the target jumps to its end
JqFinish(w, t) ==
    LET el == w.dom[t]
        mine == SelectSeq(el.queue, LAMBDA k : ~IsSvg(k))
        rest == SelectSeq(el.queue, LAMBDA k : IsSvg(k))
    IN [w EXCEPT !.dom[t] = [EndAll(el, mine) EXCEPT !.queue = rest]]

\* Snap: inAnim() of the target, each one status(1) and stop()
SnapFinish(w, t) ==
    LET el == w.dom[t]
        mine == SelectSeq(el.queue, LAMBDA k : IsSvg(k))
        rest == SelectSeq(el.queue, LAMBDA k : ~IsSvg(k))
    IN [w EXCEPT !.dom[t] = [EndAll(el, mine) EXCEPT !.queue = rest]]

\* a transition started on the target
Start(w, t, kind) == [w EXCEPT !.dom[t].queue = Append(@, kind)]

\* Animation.moveOutside(target, direction)
moveOutside(w, t, direction) ==
    LET el == w.dom[t]
        posTop == NatTop + el.top
        posLeft == NatLeft + el.left
    IN CASE direction = "up" ->
              [w EXCEPT !.dom[t].top = (0 - posTop) - ElHeight]
         [] direction = "down" ->
              [w EXCEPT !.dom[t].top = (WinHeight - posTop) + ElHeight]
         [] direction = "left" ->
              [w EXCEPT !.dom[t].left = (0 - posLeft) - ElWidth]
         [] direction = "right" ->
              [w EXCEPT !.dom[t].left = (WinWidth - posLeft) + ElWidth]
         [] OTHER -> w

\* prepare() without its late_prepare guard
LatePrepareGuardOff(an) == FALSE

\* prepare(): if(this.late_prepare && !this.ready) return;
LatePrepareGuard(an) == an.late_prepare /\ ~an.ready

\* prepare() without its no_reverse guard
NoReverseGuardOff(an) == FALSE

\* prepare(): if(this.no_reverse && this.ready && this.played) return;
NoReverseGuard(an) == an.no_reverse /\ an.ready /\ an.played

RECURSIVE finish(_, _), finishEach(_, _), prepare(_, _), prepareEach(_, _),
          play(_, _), playEach(_, _)

\* finish() taking the animation back to not ready
finishClearsReady(w, a) ==
    IF w.threw THEN w
    ELSE LET an == w.anims[a]
             w0 == Log([w EXCEPT !.anims[a].ready = FALSE], <<"finish", a>>)
         IN IF IsSvg(an.type) THEN SnapFinish(w0, an.target)
            ELSE IF an.type = "set" THEN finishEach(w0, an.animations)
            ELSE IF an.type = "custom"
                 THEN Log(w0, <<"finishCustomAnimation", a>>)
            ELSE JqFinish(w0, an.target)

\* Animation.prototype.finish
finish(w, a) ==
    IF w.threw THEN w
    ELSE LET an == w.anims[a]
             w0 == Log(w, <<"finish", a>>)
         IN IF IsSvg(an.type) THEN SnapFinish(w0, an.target)
            ELSE IF an.type = "set" THEN finishEach(w0, an.animations)
            ELSE IF an.type = "custom"
                 THEN Log(w0, <<"finishCustomAnimation", a>>)
            ELSE JqFinish(w0, an.target)

finishEach(w, as) ==
    IF as = <<>> THEN w ELSE finishEach(finish(w, Head(as)), Tail(as))

\* the switch of prepare with a changeText case that only ever captures
PreconditionKeepsText(w, a) ==
    LET an == w.anims[a]
        t == an.target
        w0 == Log(w, <<"precondition", a>>)
    IN CASE an.type = "fadeIn" -> [w0 EXCEPT !.dom[t].visibility = "hidden"]
         [] an.type = "fadeOut" -> [w0 EXCEPT !.dom[t].visibility = "visible"]
         [] an.type = "moveIn" -> moveOutside(w0, t, an.from)
         [] an.type = "svg.fadeIn" -> [w0 EXCEPT !.dom[t].visibility = "hidden"]
         [] an.type = "svg.move" -> [w0 EXCEPT !.dom[t].transform = "from"]
         [] an.type = "set" -> prepareEach(w0, an.animations)
         [] an.type = "changeText" ->
              [w0 EXCEPT !.anims[a].old_text = w0.dom[t].html]
         [] an.type = "custom" -> Log(w0, <<"prepareCustomAnimation", a>>)
         [] OTHER -> w0

\* the switch of Animation.prototype.prepare: the preconditions of the kind
Precondition(w, a) ==
    LET an == w.anims[a]
        t == an.target
        w0 == Log(w, <<"precondition", a>>)
    IN CASE an.type = "fadeIn" -> [w0 EXCEPT !.dom[t].visibility = "hidden"]
         [] an.type = "fadeOut" -> [w0 EXCEPT !.dom[t].visibility = "visible"]
         [] an.type = "moveIn" -> moveOutside(w0, t, an.from)
         [] an.type = "svg.fadeIn" -> [w0 EXCEPT !.dom[t].visibility = "hidden"]
         [] an.type = "svg.move" -> [w0 EXCEPT !.dom[t].transform = "from"]
         [] an.type = "set" -> prepareEach(w0, an.animations)
         [] an.type = "changeText" ->
              IF an.old_text = Undefined
              THEN [w0 EXCEPT !.anims[a].old_text = w0.dom[t].html]
              ELSE [w0 EXCEPT !.dom[t].html = an.old_text]
         [] an.type = "custom" -> Log(w0, <<"prepareCustomAnimation", a>>)
         [] OTHER -> w0

\* prepare() clearing played when it runs in full
prepareClearsPlayed(w, a) ==
    IF w.threw THEN w
    ELSE LET an == w.anims[a]
             w0 == Log(w, <<"prepare", a>>)
         IN IF LatePrepareGuard(an) THEN w0
            ELSE IF NoReverseGuard(an) THEN w0
            ELSE LET w1 == Precondition(finish(w0, a), a)
                 IN IF w1.threw THEN w1
                    ELSE [w1 EXCEPT !.anims[a].ready = TRUE,
                                    !.anims[a].played = FALSE]

\* Animation.prototype.prepare
prepare(w, a) ==
    IF w.threw THEN w
    ELSE LET an == w.anims[a]
             w0 == Log(w, <<"prepare", a>>)
         IN IF LatePrepareGuard(an) THEN w0
            ELSE IF NoReverseGuard(an) THEN w0
            ELSE LET w1 == Precondition(finish(w0, a), a)
                 IN IF w1.threw THEN w1
                    ELSE [w1 EXCEPT !.anims[a].ready = TRUE]

prepareEach(w, as) ==
    IF as = <<>> THEN w ELSE prepareEach(prepare(w, Head(as)), Tail(as))

\* the late-prepare pass of play() run whatever late_prepare says
LatePreparePassAlways(w, a) ==
    prepare([w EXCEPT !.anims[a].ready = TRUE,
                      !.anims[a].played = FALSE], a)

\* play(): if(this.late_prepare) { ready = true; played = false; prepare(); }
LatePreparePass(w, a) ==
    IF w.anims[a].late_prepare
    THEN prepare([w EXCEPT !.anims[a].ready = TRUE,
                           !.anims[a].played = FALSE], a)
    ELSE w

\* the switch of play throwing on a kind it does not know
TransitionRejectsUnknown(w, a) ==
    LET an == w.anims[a]
        t == an.target
        w0 == Log(w, <<"transition", a>>)
    IN IF w.threw THEN w
       ELSE CASE an.type = "fadeIn" ->
                   Start([w0 EXCEPT !.dom[t].visibility = "visible",
                                    !.dom[t].display = "none"], t, "fadeIn")
              [] an.type = "fadeOut" -> Throw(w0, a)
              [] an.type = "moveIn" -> Start(w0, t, "moveIn")
              [] an.type = "svg.fadeIn" ->
                   Start([w0 EXCEPT !.dom[t].visibility = "visible",
                                    !.dom[t].opacity = 0], t, "svg.fadeIn")
              [] an.type = "svg.move" -> Start(w0, t, "svg.move")
              [] an.type = "set" -> playEach(w0, an.animations)
              [] an.type = "changeText" ->
                   Log([w0 EXCEPT !.anims[a].old_text = w0.dom[t].html,
                                  !.dom[t].html = an.text],
                       <<"prettyPrint", a>>)
              [] an.type = "custom" -> Log(w0, <<"playCustomAnimation", a>>)
              [] OTHER -> Throw(w0, a)

\* the switch of Animation.prototype.play: the transition of the kind
Transition(w, a) ==
    LET an == w.anims[a]
        t == an.target
        w0 == Log(w, <<"transition", a>>)
    IN IF w.threw THEN w
       ELSE CASE an.type = "fadeIn" ->
                   Start([w0 EXCEPT !.dom[t].visibility = "visible",
                                    !.dom[t].display = "none"], t, "fadeIn")
              \* fadeOut(this.duration, this,easing, ...): easing is no variable
              \* of the script, evaluating it raises a ReferenceError
              [] an.type = "fadeOut" -> Throw(w0, a)
              [] an.type = "moveIn" -> Start(w0, t, "moveIn")
              [] an.type = "svg.fadeIn" ->
                   Start([w0 EXCEPT !.dom[t].visibility = "visible",
                                    !.dom[t].opacity = 0], t, "svg.fadeIn")
              [] an.type = "svg.move" -> Start(w0, t, "svg.move")
              [] an.type = "set" -> playEach(w0, an.animations)
              [] an.type = "changeText" ->
                   Log([w0 EXCEPT !.anims[a].old_text = w0.dom[t].html,
                                  !.dom[t].html = an.text],
                       <<"prettyPrint", a>>)
              [] an.type = "custom" -> Log(w0, <<"playCustomAnimation", a>>)
              [] OTHER -> Log(w0, <<"console.error", a>>)

\* Animation.prototype.play
play(w, a) ==
    IF w.threw THEN w
    ELSE LET w0 == Log(Log(w, <<"play", a>>), <<"beforePlay", a>>)
             w1 == Transition(LatePreparePass(w0, a), a)
         IN IF w1.threw THEN w1
            ELSE Log([w1 EXCEPT !.anims[a].played = TRUE], <<"afterPlay", a>>)

playEach(w, as) ==
    IF as = <<>> THEN w ELSE playEach(play(w, Head(as)), Tail(as))

----------------------------------------------------------------------------
(* StepCtrl *)

\* steps[i] of the script (0-based)
StepAt(ss, i) == ss[i + 1]

RECURSIVE initLoop(_, _, _)
initLoop(w, ss, i) ==
    IF i >= Len(ss) THEN w
    ELSE initLoop(IF StepAt(ss, i).type = "anim"
                  THEN prepare(w, StepAt(ss, i).animation)
                  ELSE w,
                  ss, i + 1)

\* the loop of init starting at the second step
initFromSecond(w, ss) == initLoop(w, ss, 1)

\* StepCtrl.init
init(w, ss) == initLoop(w, ss, 0)

\* nextStep without its pre execution
PreExecutionSkipped(w, step) == w

\* nextStep, pre execution: case "anim": step.animation.finish();
PreExecution(w, step) ==
    IF step.type = "anim" THEN finish(w, step.animation) ELSE w

\* the increment wrapping to the first step instead of staying on the last
IncrementWrap(cur, n) == IF cur + 1 >= n THEN 0 ELSE cur + 1

\* if(++this.currentStep >= this.steps.length)
\*     this.currentStep = this.steps.length - 1;
Increment(cur, n) == IF cur + 1 >= n THEN n - 1 ELSE cur + 1

\* the decrement without its clamp
DecrementNoClamp(cur) == cur - 1

\* if(--this.currentStep < 0) this.currentStep = 0;
Decrement(cur) == IF cur - 1 < 0 THEN 0 ELSE cur - 1

\* the forward switch silent on a step type it does not know
ExecuteSilent(w, step) ==
    CASE step.type = "prevPage" -> w
      [] step.type = "nextPage" -> Log(w, <<"nextPage", 0>>)
      [] step.type = "anim" -> play(w, step.animation)
      [] OTHER -> w

\* the forward switch navigating on a prevPage step too
ExecuteNavigatesBack(w, step) ==
    CASE step.type = "prevPage" -> Log(w, <<"previousPage", 0>>)
      [] step.type = "nextPage" -> Log(w, <<"nextPage", 0>>)
      [] step.type = "anim" -> play(w, step.animation)
      [] OTHER -> Log(w, <<"console.error", 0>>)

\* the forward switch leaving out the call of nextPage()
ExecuteStaysOnPage(w, step) ==
    CASE step.type = "prevPage" -> w
      [] step.type = "nextPage" -> w
      [] step.type = "anim" -> play(w, step.animation)
      [] OTHER -> Log(w, <<"console.error", 0>>)

\* nextStep, real execution: the switch on the type of the step
Execute(w, step) ==
    CASE step.type = "prevPage" -> w
      [] step.type = "nextPage" -> Log(w, <<"nextPage", 0>>)
      [] step.type = "anim" -> play(w, step.animation)
      [] OTHER -> Log(w, <<"console.error", 0>>)

\* the reverse switch with prevPage and nextPage exchanged
ReverseExecuteSwapped(w, step) ==
    CASE step.type = "nextPage" -> Log(w, <<"previousPage", 0>>)
      [] step.type = "prevPage" -> w
      [] step.type = "anim" -> prepare(w, step.animation)
      [] OTHER -> Log(w, <<"console.error", 0>>)

\* previousStep: the switch on the type of the step
ReverseExecute(w, step) ==
    CASE step.type = "prevPage" -> Log(w, <<"previousPage", 0>>)
      [] step.type = "nextPage" -> w
      [] step.type = "anim" -> prepare(w, step.animation)
      [] OTHER -> Log(w, <<"console.error", 0>>)

\* StepCtrl.nextStep: [w, cur] after the call
nextStep(w, ss, cur) ==
    LET w1 == PreExecution(w, StepAt(ss, cur))
        cur1 == IF w1.threw THEN cur ELSE Increment(cur, Len(ss))
    IN [w |-> IF w1.threw THEN w1 ELSE Execute(w1, StepAt(ss, cur1)),
        cur |-> cur1]

\* StepCtrl.previousStep: [w, cur] after the call
previousStep(w, ss, cur) ==
    LET w1 == ReverseExecute(w, StepAt(ss, cur))
    IN [w |-> w1, cur |-> IF w1.threw THEN cur ELSE Decrement(cur)]

----------------------------------------------------------------------------
(* Actions: one per handler the page can run *)

\* most transitions in flight on one target
MaxQueue == 1

World == [anims |-> anims, dom |-> dom, events |-> <<>>, threw |-> FALSE]

QueuesWithin(d) == \A t \in DOMAIN d : Len(d[t].queue) <= MaxQueue

\* what the handler `op` left: the world w and the cursor cur
Applied(op, a, w, cur) ==
    /\ QueuesWithin(w.dom)
    /\ anims' = w.anims
    /\ dom' = w.dom
    /\ events' = w.events
    /\ currentStep' = cur
    /\ lastOp' = [op |-> op, from |-> currentStep, anim |-> a]
    /\ UNCHANGED steps

\* the handler `op` ran and left the world w and the cursor cur
Ran(op, a, w, cur) ==
    /\ Applied(op, a, w, cur)
    /\ UNCHANGED trail

\* the page calls init() once, first, and the other functions after it
\* ("Basic Usage": replace steps, call init(), then nextStep() / previousStep())
Initialized == lastOp.op # "load"

StepInit ==
    /\ ~Initialized
    /\ Ran("init", 0, init(World, steps), currentStep)

NextStep ==
    /\ Initialized
    /\ LET r == nextStep(World, steps, currentStep)
       IN Ran("nextStep", 0, r.w, r.cur)

PreviousStep ==
    /\ Initialized
    /\ LET r == previousStep(World, steps, currentStep)
       IN Ran("previousStep", 0, r.w, r.cur)

\* a call of the page on an Animation object it holds
AnimPrepare(a) ==
    /\ Initialized
    /\ Ran("prepare", a, prepare(World, a), currentStep)

AnimPlay(a) ==
    /\ Initialized
    /\ Ran("play", a, play(World, a), currentStep)

AnimFinish(a) ==
    /\ Initialized
    /\ Ran("finish", a, finish(World, a), currentStep)

\* the oldest transition in flight on target t reaches its end
TransitionEnd(t) ==
    /\ dom[t].queue # <<>>
    /\ dom' = [dom EXCEPT ![t] = [EndState(@, Head(@.queue))
                                    EXCEPT !.queue = Tail(dom[t].queue)]]
    /\ events' = <<>>
    /\ lastOp' = [op |-> "transitionEnd", from |-> currentStep, anim |-> 0]
    /\ UNCHANGED <<steps, currentStep, anims, trail>>

----------------------------------------------------------------------------
(* Initial states *)

\* the options an author gives an animation of a kind (a set's children apart)
OptionsOf(kind) ==
    [late_prepare : BOOLEAN, no_reverse : BOOLEAN,
     from : IF kind = "moveIn" THEN Directions ELSE {Undefined},
     text : IF kind = "changeText" THEN {NewText} ELSE {Undefined},
     animations : {<<>>}]

ConfigsOf(kinds) ==
    UNION {[type : {k}, options : OptionsOf(k)] : k \in kinds}

\* the kinds of the animations of a step list, and of the children of a set
StepKinds == {"fadeIn", "fadeOut", "changeText", UnsupportedKind}
ChildKinds == {"fadeIn", "fadeOut", "changeText"}

\* the animation steps of a list of step types get the animations 1, 2, ...
AnimIndex(ts, i) == Cardinality({j \in 1..i : ts[j] = "anim"})

StepsOf(ts) ==
    [i \in DOMAIN ts |->
        [type |-> ts[i],
         animation |-> IF ts[i] = "anim" THEN AnimIndex(ts, i) ELSE 0]]

\* a page whose steps were replaced by a list of at most MaxSteps steps, of any
\* types, each animation step with an animation of its own on a target of its own
Init ==
    \E n \in 1..MaxSteps : \E ts \in [1..n -> StepTypes] :
      \E cfg \in [1..AnimIndex(ts, n) -> ConfigsOf(StepKinds)] :
        /\ steps = StepsOf(ts)
        /\ currentStep = 0
        /\ anims = [a \in DOMAIN cfg |->
                       NewAnimation(cfg[a].type, a, cfg[a].options)]
        /\ dom = [t \in DOMAIN cfg |-> NewElement]
        /\ events = <<>>
        /\ lastOp = [op |-> "load", from |-> 0, anim |-> 0]
        /\ trail = <<>>

Next ==
    \/ StepInit
    \/ NextStep
    \/ PreviousStep
    \/ \E t \in DOMAIN dom : TransitionEnd(t)

Spec == Init /\ [][Next]_vars

\* a page with one animation step between the two page steps; the animation is
\* of any kind, a set has up to MaxChildren children; the page also calls the
\* Animation objects directly
InitAnim ==
    \E root \in ConfigsOf(Kinds) :
      \E n \in 0..MaxChildren : \E cfg \in [2..(n + 1) -> ConfigsOf(ChildKinds)] :
        /\ (n > 0) = (root.type = "set")
        /\ steps = StepsOf(<<"prevPage", "anim", "nextPage">>)
        /\ currentStep = 0
        /\ anims = [a \in 1..(n + 1) |->
                     IF a = 1
                     THEN NewAnimation(root.type, 1,
                            [root.options EXCEPT
                               !.animations = [i \in 1..n |-> i + 1]])
                     ELSE NewAnimation(cfg[a].type, a, cfg[a].options)]
        /\ dom = [t \in 1..(n + 1) |-> NewElement]
        /\ events = <<>>
        /\ lastOp = [op |-> "load", from |-> 0, anim |-> 0]
        /\ trail = <<>>

NextAnim ==
    \/ StepInit
    \/ NextStep
    \/ PreviousStep
    \/ \E a \in DOMAIN anims : AnimPrepare(a)
    \/ \E a \in DOMAIN anims : AnimPlay(a)
    \/ \E a \in DOMAIN anims : AnimFinish(a)
    \/ \E t \in DOMAIN dom : TransitionEnd(t)

SpecAnim == InitAnim /\ [][NextAnim]_vars

\* most animation steps between the two page steps of a well-formed list
MaxInterior == 2

\* the animations of a well-formed list: of any kind but a set, reversible
WellConfigs == {c \in ConfigsOf(Kinds \ {"set"}) : ~c.options.no_reverse}

\* a page whose list is well formed: a prevPage step first, a nextPage step
\* last, animation steps between them, each with an animation of its own
\* (without no_reverse) on a target of its own; only the controller is called
InitWell ==
    \E n \in 0..MaxInterior : \E cfg \in [1..n -> WellConfigs] :
        /\ steps = StepsOf(<<"prevPage">> \o [i \in 1..n |-> "anim"]
                             \o <<"nextPage">>)
        /\ currentStep = 0
        /\ anims = [a \in 1..n |-> NewAnimation(cfg[a].type, a, cfg[a].options)]
        /\ dom = [t \in 1..n |-> NewElement]
        /\ events = <<>>
        /\ lastOp = [op |-> "load", from |-> 0, anim |-> 0]
        /\ trail = <<>>

SpecWell == InitWell /\ [][Next]_vars

\* most calls made on the lone Animation object
MaxTrail == 4

\* animation 1 called on its own: prepare(), play() or finish()
Call(w, op) ==
    CASE op = "prepare" -> prepare(w, 1)
      [] op = "play" -> play(w, 1)
      [] OTHER -> finish(w, 1)

Called(op) ==
    /\ Len(trail) < MaxTrail
    /\ trail' = Append(trail, op)
    /\ Applied(op, 1, Call(World, op), currentStep)

\* a page that holds one Animation object of any kind but a set, outside the
\* step list, and calls prepare(), play() and finish() on it in any order
InitTrail ==
    \E root \in ConfigsOf(Kinds \ {"set"}) :
        /\ steps = StepsOf(<<"prevPage", "nextPage">>)
        /\ currentStep = 0
        /\ anims = [a \in {1} |-> NewAnimation(root.type, 1, root.options)]
        /\ dom = [t \in {1} |-> NewElement]
        /\ events = <<>>
        /\ lastOp = [op |-> "load", from |-> 0, anim |-> 0]
        /\ trail = <<>>

NextTrail ==
    \/ \E op \in {"prepare", "play", "finish"} : Called(op)
    \/ \E t \in DOMAIN dom : TransitionEnd(t)

SpecTrail == InitTrail /\ [][NextTrail]_vars

----------------------------------------------------------------------------
(* What the last handler did, read off events *)

Has(es, e) == \E i \in DOMAIN es : es[i] = e

Count(es, e) == Cardinality({i \in DOMAIN es : es[i] = e})

\* the events named `name`, whatever they are about
Named(es, name) == SelectSeq(es, LAMBDA e : e[1] = name)

LastIndex == Len(steps) - 1

PageCalls(es) ==
    SelectSeq(es, LAMBDA e : e[1] \in {"nextPage", "previousPage"})

----------------------------------------------------------------------------
(* StepCtrl: the cursor and the page steps *)

\* C1: in every reachable state of a controller with a non-empty step list of
\* any step types, 0 <= currentStep <= steps.length - 1.
C1_CursorInRange ==
    /\ Len(steps) >= 1
    /\ 0 <= currentStep
    /\ currentStep <= Len(steps) - 1

\* nextStep() was called on the last step, and previousStep() on the first,
\* of a list of two steps
C1_Witness ==
    /\ Len(steps) = 2
    /\ \/ lastOp.op = "nextStep" /\ lastOp.from = LastIndex
       \/ lastOp.op = "previousStep" /\ lastOp.from = 0
    /\ StepAt(steps, lastOp.from).type = UnknownStep

\* C2: a nextStep() call made with the cursor on the last step leaves the
\* cursor there and executes the last step once more: one nextPage() call if
\* it is a nextPage step, one play() call of its animation if it is an anim
\* step; running past the end raises nothing (an exception of the call comes
\* from the transition of a fadeOut).
C2_NextAtLast ==
    [][(lastOp'.op = "nextStep" /\ currentStep = LastIndex) =>
         LET last == StepAt(steps, LastIndex)
         IN /\ currentStep' = LastIndex
            /\ last.type = "nextPage" =>
                 Count(events', <<"nextPage", 0>>) = 1
            /\ last.type = "anim" =>
                 Count(events', <<"play", last.animation>>) = 1
            /\ \A i \in DOMAIN events' :
                 events'[i][1] = "throw" =>
                   anims[events'[i][2]].type = "fadeOut"]_vars

\* nextStep() ran on the last step, a nextPage step, of a two-step list and
\* called nextPage()
C2_Witness ==
    /\ Len(steps) = 2
    /\ lastOp.op = "nextStep"
    /\ lastOp.from = LastIndex
    /\ currentStep = LastIndex
    /\ StepAt(steps, LastIndex).type = "nextPage"
    /\ Count(events, <<"nextPage", 0>>) = 1

\* C3: a previousStep() call made with the cursor on step 0 leaves the cursor
\* at 0 and reverse-executes step 0 once more: one previousPage() call if it is
\* a prevPage step, one prepare() call of its animation if it is an anim step.
C3_PreviousAtFirst ==
    [][(lastOp'.op = "previousStep" /\ currentStep = 0) =>
         LET first == StepAt(steps, 0)
         IN /\ currentStep' = 0
            /\ first.type = "prevPage" =>
                 Count(events', <<"previousPage", 0>>) = 1
            /\ first.type = "anim" =>
                 Count(events', <<"prepare", first.animation>>) = 1]_vars

\* previousStep() ran on step 0, a prevPage step, and called previousPage()
C3_Witness ==
    /\ Len(steps) = 2
    /\ lastOp.op = "previousStep"
    /\ lastOp.from = 0
    /\ currentStep = 0
    /\ StepAt(steps, 0).type = "prevPage"
    /\ Count(events, <<"previousPage", 0>>) = 1

C5_UnreachableBoundaryLogged ==
    /\ (lastOp.op = "nextStep"
         /\ StepAt(steps, currentStep).type = "prevPage") =>
         Has(events, <<"console.error", 0>>)
    /\ (lastOp.op = "previousStep"
         /\ StepAt(steps, lastOp.from).type = "nextPage") =>
         Has(events, <<"console.error", 0>>)

\* C6 as claimed: a nextStep() or previousStep() that executes a step of an
\* unknown type reports an error and changes no state: the cursor is where it
\* was, no prepare / play / finish of an animation and no page function is
\* called.
C6_UnknownStepChangesNothing ==
    LET executed == IF lastOp.op = "nextStep" THEN currentStep ELSE lastOp.from
    IN (lastOp.op \in {"nextStep", "previousStep"}
          /\ StepAt(steps, executed).type = UnknownStep) =>
         /\ Has(events, <<"console.error", 0>>)
         /\ currentStep = lastOp.from
         /\ \A i \in DOMAIN events :
              events[i][1] \notin {"prepare", "play", "finish",
                                   "nextPage", "previousPage"}

\* the cursor after nextStep() and after previousStep(), whatever the step
CursorAfter(op, cur) ==
    IF op = "nextStep"
    THEN (IF cur + 1 > LastIndex THEN LastIndex ELSE cur + 1)
    ELSE (IF cur = 0 THEN 0 ELSE cur - 1)

\* C6, amended: a nextStep() or previousStep() that executes a step of an
\* unknown type reports an error once, calls no prepare() or play() and no page
\* function and leaves the flags of every animation as they were, but the
\* cursor moves as for any other step (one forward up to the last index, one
\* back down to 0), and nextStep() first calls finish() on the animation of the
\* anim step it leaves; previousStep() calls nothing else and leaves the
\* animations and the page untouched.
C6_UnknownStepReported ==
    [][LET executed == IF lastOp'.op = "nextStep"
                       THEN currentStep' ELSE currentStep
           left == StepAt(steps, currentStep)
       IN (lastOp'.op \in {"nextStep", "previousStep"}
             /\ StepAt(steps, executed).type = UnknownStep) =>
            /\ Count(events', <<"console.error", 0>>) = 1
            /\ currentStep' = CursorAfter(lastOp'.op, currentStep)
            /\ \A i \in DOMAIN events' :
                 events'[i][1] \notin {"prepare", "play", "precondition",
                                       "transition", "nextPage",
                                       "previousPage", "throw"}
            /\ \A a \in DOMAIN anims :
                 /\ anims'[a].ready = anims[a].ready
                 /\ anims'[a].played = anims[a].played
            /\ lastOp'.op = "previousStep" =>
                 /\ events' = <<<<"console.error", 0>>>>
                 /\ anims' = anims
                 /\ dom' = dom
            /\ lastOp'.op = "nextStep" =>
                 Named(events', "finish") =
                   (IF left.type = "anim"
                    THEN <<<<"finish", left.animation>>>> ELSE <<>>)]_vars

\* nextStep() left an anim step for a step of an unknown type: the cursor
\* moved, finish() was called and the error was reported
C6_Witness ==
    /\ lastOp.op = "nextStep"
    /\ lastOp.from = 0
    /\ currentStep = 1
    /\ StepAt(steps, 0).type = "anim"
    /\ StepAt(steps, 1).type = UnknownStep
    /\ events = <<<<"finish", 1>>, <<"console.error", 0>>>>

----------------------------------------------------------------------------
(* StepCtrl.init *)

\* the animations of the anim steps, in list order
StepAnimations ==
    LET animSteps == SelectSeq(steps, LAMBDA st : st.type = "anim")
    IN [i \in DOMAIN animSteps |-> animSteps[i].animation]

\* C7: init() calls prepare() once on the
\* animation of every anim step, in list order, and nothing for the other
\* steps; it calls no page function and leaves the cursor; afterwards an anim
\* step without late_prepare has ready = true and played = false, one with
\* late_prepare still has ready = false.
C7_InitPreparesEach ==
    [][lastOp'.op = "init" =>
         /\ Named(events', "prepare") =
              [i \in DOMAIN StepAnimations |-> <<"prepare", StepAnimations[i]>>]
         /\ \A i \in DOMAIN events' :
              events'[i][1] \notin {"play", "nextPage", "previousPage",
                                    "console.error", "throw"}
         /\ currentStep' = currentStep
         /\ \A i \in DOMAIN StepAnimations :
              LET an == anims'[StepAnimations[i]]
              IN /\ an.ready = ~an.late_prepare
                 /\ ~an.played]_vars

\* init() ran on a list of two anim steps, the first with late_prepare and the
\* second without
C7_Witness ==
    /\ lastOp.op = "init"
    /\ Len(steps) = 2
    /\ StepAnimations = <<1, 2>>
    /\ anims[1].late_prepare /\ ~anims[1].ready
    /\ ~anims[2].late_prepare /\ anims[2].ready /\ ~anims[2].played
    /\ Named(events, "prepare") = <<<<"prepare", 1>>, <<"prepare", 2>>>>

----------------------------------------------------------------------------
(* Animation: no_reverse and late_prepare *)

\* the events of es about animation a that are calls of prepare / play /
\* finish, the hook before the play, or the two switches
About(es, a) ==
    SelectSeq(es, LAMBDA e :
        e[2] = a /\ e[1] \in {"play", "beforePlay", "prepare", "finish",
                              "precondition", "transition"})

\* the first place of e in es (0: none)
Pos(es, e) ==
    IF Has(es, e) THEN CHOOSE i \in DOMAIN es :
                          es[i] = e /\ \A j \in 1..(i - 1) : es[j] # e
    ELSE 0

\* es from its i-th event on
From(es, i) == SubSeq(es, i, Len(es))

\* whether p is a prefix of es
StartsWith(es, p) == Len(es) >= Len(p) /\ SubSeq(es, 1, Len(p)) = p

\* C8: prepare() on a no_reverse animation that is ready and played does
\* nothing: the animations (flags, saved text), the page (visual state,
\* transitions in flight) are as before and finish() is not called.
C8_NoReversePrepareNoOp ==
    [][\A a \in DOMAIN anims :
         (lastOp'.op = "prepare" /\ lastOp'.anim = a
            /\ anims[a].no_reverse /\ anims[a].ready /\ anims[a].played) =>
           /\ anims' = anims
           /\ dom' = dom
           /\ events' = <<<<"prepare", a>>>>]_vars

\* prepare() was called on a no_reverse animation, ready and played, with its
\* transition still in flight, and returned at once
C8_Witness ==
    /\ lastOp.op = "prepare"
    /\ anims[lastOp.anim].no_reverse
    /\ anims[lastOp.anim].ready
    /\ anims[lastOp.anim].played
    /\ dom[anims[lastOp.anim].target].queue # <<>>
    /\ events = <<<<"prepare", lastOp.anim>>>>

\* C9 as claimed: once a no_reverse animation has been played, no later
\* handler applies its preconditions again.
C9_NoReverseNeverReprepared ==
    [][\A a \in DOMAIN anims :
         (anims[a].no_reverse /\ anims[a].played) =>
           ~Has(events', <<"precondition", a>>)]_vars

\* C9, amended: while a no_reverse animation is ready and played, no prepare()
\* or finish() call, direct or through init / nextStep / previousStep, applies
\* its preconditions again; without late_prepare it stays ready and played
\* for good; with late_prepare too, only a play() of it applies them again
\* (its late-prepare pass, right before the transition).
C9_NoReverseOnlyLatePlayReprepares ==
    [][\A a \in DOMAIN anims :
         (anims[a].no_reverse /\ anims[a].ready /\ anims[a].played) =>
           /\ Has(events', <<"precondition", a>>) =>
                /\ anims[a].late_prepare
                /\ Has(events', <<"play", a>>)
                /\ StartsWith(About(From(events', Pos(events', <<"play", a>>)), a),
                              <<<<"play", a>>, <<"beforePlay", a>>,
                                <<"prepare", a>>, <<"finish", a>>,
                                <<"precondition", a>>, <<"transition", a>>>>)
                /\ Count(events', <<"precondition", a>>)
                     = Count(events', <<"play", a>>)
           /\ ~anims[a].late_prepare =>
                anims'[a].ready /\ anims'[a].played]_vars

\* a no_reverse animation without late_prepare, ready and played, was played
\* again and then prepared: its preconditions were not applied
C9_Witness ==
    /\ lastOp.op \in {"prepare", "previousStep"}
    /\ anims[1].no_reverse /\ ~anims[1].late_prepare
    /\ anims[1].ready /\ anims[1].played
    /\ anims[1].type = "changeText"
    /\ dom[1].html = NewText
    /\ Has(events, <<"prepare", 1>>)
    /\ ~Has(events, <<"precondition", 1>>)

\* C10: for a late_prepare animation without no_reverse: while it is not
\* ready, no handler without a play() of it applies its preconditions or makes
\* it ready, and a prepare() call on it changes nothing and calls no finish();
\* a play() of it first runs a whole prepare pass (finish(), preconditions)
\* and then the transition, and leaves it ready; once it is ready every
\* prepare() of it calls finish() and applies the preconditions.
C10_LatePrepare ==
    [][\A a \in DOMAIN anims :
         (anims[a].late_prepare /\ ~anims[a].no_reverse) =>
           /\ (~anims[a].ready /\ ~Has(events', <<"play", a>>)) =>
                /\ ~Has(events', <<"precondition", a>>)
                /\ ~anims'[a].ready
           /\ (~anims[a].ready /\ lastOp'.op = "prepare" /\ lastOp'.anim = a) =>
                /\ anims' = anims
                /\ dom' = dom
                /\ events' = <<<<"prepare", a>>>>
           /\ Has(events', <<"play", a>>) =>
                /\ anims'[a].ready
                /\ StartsWith(About(From(events', Pos(events', <<"play", a>>)), a),
                              <<<<"play", a>>, <<"beforePlay", a>>,
                                <<"prepare", a>>, <<"finish", a>>,
                                <<"precondition", a>>, <<"transition", a>>>>)
           /\ (anims[a].ready /\ Has(events', <<"prepare", a>>)
                 /\ ~Has(events', <<"play", a>>)) =>
                /\ anims'[a].ready
                /\ StartsWith(About(From(events', Pos(events', <<"prepare", a>>)), a),
                              <<<<"prepare", a>>, <<"finish", a>>,
                                <<"precondition", a>>>>)]_vars

\* a late_prepare animation was prepared while not ready (nothing happened),
\* then played, and a prepare() after that ran in full
C10_Witness ==
    /\ lastOp.op = "prepare"
    /\ lastOp.anim = 1
    /\ anims[1].late_prepare /\ ~anims[1].no_reverse
    /\ anims[1].ready /\ anims[1].played
    /\ anims[1].type = "changeText"
    /\ dom[1].html = OriginalText
    /\ events = <<<<"prepare", 1>>, <<"finish", 1>>, <<"precondition", 1>>>>

----------------------------------------------------------------------------
(* C11 *)

\* the lone animation is a changeText
LoneChangeText == anims[1].type = "changeText"

\* C11 as stated: for a changeText animation on a target whose content is
\* T0, after prepare(); play() the content is the animation's text and
\* after prepare(); play(); prepare() the content is T0 again.
C11_RoundTrip ==
    LoneChangeText =>
        /\ trail = <<"prepare", "play">> => dom[1].html = anims[1].text
        /\ trail = <<"prepare", "play", "prepare">> =>
               dom[1].html = OriginalText

\* C11, amended: for a changeText animation without no_reverse on a target
\* whose content is T0, after prepare(); play() the content is the
\* animation's text and after prepare(); play(); prepare() it is T0 again;
\* with no_reverse the last prepare() does nothing and the text stays.
C11_RoundTripUnlessNoReverse ==
    LoneChangeText =>
        /\ trail = <<"prepare", "play">> => dom[1].html = anims[1].text
        /\ trail = <<"prepare", "play", "prepare">> =>
               dom[1].html = IF anims[1].no_reverse THEN anims[1].text
                             ELSE OriginalText

\* a changeText without no_reverse went through prepare(); play(); prepare()
C11_Witness ==
    /\ LoneChangeText
    /\ ~anims[1].no_reverse
    /\ trail = <<"prepare", "play", "prepare">>
    /\ anims[1].text # OriginalText
    /\ dom[1].html = OriginalText

----------------------------------------------------------------------------
(* C12 *)

\* the events of es that animation a logged
Own(es, a) == SelectSeq(es, LAMBDA e : e[2] = a)

\* C12: every play() of an animation of any kind runs to its end: it
\* calls beforePlay once and first, then runs the late-prepare pass (when
\* late_prepare is set) and the transition of the kind, sets played, and
\* calls afterPlay once and last; nothing is thrown.
C12_PlayRunsToCompletion ==
    \A a \in DOMAIN anims :
        Has(events, <<"play", a>>) =>
            LET own == Own(events, a)
                first == Pos(own, <<"play", a>>)
            IN /\ ~Has(Named(events, "throw"), <<"throw", a>>)
               /\ Count(events, <<"beforePlay", a>>) = 1
               /\ own[first + 1] = <<"beforePlay", a>>
               /\ anims[a].late_prepare =>
                      own[first + 2] = <<"prepare", a>>
               /\ Pos(own, <<"transition", a>>) > first + 1
               /\ anims[a].played
               /\ Count(events, <<"afterPlay", a>>) = 1
               /\ own[Len(own)] = <<"afterPlay", a>>

----------------------------------------------------------------------------
(* C13 *)

\* the handler that just ran played animation a, of no supported kind
PlayedUnsupported(a) ==
    /\ anims[a].type \notin SupportedKinds
    /\ Has(events, <<"play", a>>)

\* C13: a play() of an animation of no supported kind, called directly or
\* by nextStep(), reports one error, changes nothing on the page, throws
\* nothing, sets played and calls afterPlay last; nextStep() moves the
\* cursor as for any step, and the nextStep() or previousStep() called after
\* it runs as usual (finish() and the next step, or prepare() and the
\* cursor one back).
C13_UnsupportedKind ==
    [][\A a \in DOMAIN anims :
         /\ (anims[a].type \notin SupportedKinds
                /\ Has(events', <<"play", a>>)) =>
               /\ Count(events', <<"console.error", a>>) = 1
               /\ dom' = dom
               /\ Named(events', "throw") = <<>>
               /\ anims'[a].played
               /\ events'[Len(events')] = <<"afterPlay", a>>
               /\ lastOp'.op = "nextStep" =>
                      /\ currentStep' = currentStep + 1
                      /\ StepAt(steps, currentStep').animation = a
         /\ (PlayedUnsupported(a) /\ lastOp.op = "nextStep"
                /\ lastOp'.op = "nextStep") =>
               /\ currentStep' = currentStep + 1
               /\ events' = <<<<"finish", a>>, <<"nextPage", 0>>>>
         /\ (PlayedUnsupported(a) /\ lastOp.op = "nextStep"
                /\ lastOp'.op = "previousStep") =>
               /\ currentStep' = currentStep - 1
               /\ StartsWith(events', <<<<"prepare", a>>>>)]_vars

\* nextStep() played an animation of an unsupported kind
C13_Witness ==
    /\ lastOp.op = "nextStep"
    /\ PlayedUnsupported(1)
    /\ Has(events, <<"console.error", 1>>)
    /\ anims[1].played

----------------------------------------------------------------------------
(* C14 *)

----------------------------------------------------------------------------
(* C15 *)

\* the handler that just ran applied the preconditions of a by a prepare()
\* that was no part of a play() of a
FullyPrepared(es, a) ==
    Has(es, <<"precondition", a>>) /\ ~Has(es, <<"play", a>>)

\* C15 as stated: a prepare() that runs in full on an animation without
\* no_reverse leaves it ready and not played, also after a play().
C15_PrepareClearsPlayed ==
    \A a \in DOMAIN anims :
        (FullyPrepared(events, a) /\ ~anims[a].no_reverse) =>
            anims[a].ready /\ ~anims[a].played

\* C15, amended: played becomes true only at the end of a play() that ran
\* the transition, and no handler without a play() of the animation changes
\* it: a prepare() that runs in full after a play() leaves the animation
\* ready and still played.
C15_PrepareKeepsPlayed ==
    [][\A a \in DOMAIN anims :
         /\ (anims'[a].played /\ ~anims[a].played) =>
               /\ Has(events', <<"transition", a>>)
               /\ Has(events', <<"afterPlay", a>>)
         /\ ~Has(events', <<"play", a>>) =>
               anims'[a].played = anims[a].played
         /\ FullyPrepared(events', a) =>
               /\ anims'[a].ready
               /\ anims'[a].played = anims[a].played]_vars

\* a played animation without no_reverse was prepared in full
C15_Witness ==
    /\ lastOp.op \in {"prepare", "previousStep"}
    /\ FullyPrepared(events, 1)
    /\ ~anims[1].no_reverse
    /\ anims[1].ready /\ anims[1].played

----------------------------------------------------------------------------
(* C16 *)

\* C16: an animation of any kind and any flags is constructed not ready;
\* no handler (a prepare(), play() or finish() call, or a controller call)
\* takes an animation that is ready back to not ready; a finish() call
\* leaves every flag of every animation as it was.
C16_ReadyMonotonic ==
    [][\A a \in DOMAIN anims :
         /\ lastOp.op = "load" => ~anims[a].ready /\ ~anims[a].played
         /\ anims[a].ready => anims'[a].ready
         /\ lastOp'.op = "finish" =>
               /\ anims'[a].ready = anims[a].ready
               /\ anims'[a].played = anims[a].played]_vars

\* finish() was called on an animation that is ready and played
C16_Witness ==
    /\ lastOp.op = "finish"
    /\ Has(events, <<"finish", lastOp.anim>>)
    /\ anims[lastOp.anim].ready
    /\ anims[lastOp.anim].played

----------------------------------------------------------------------------
(* C17 *)

\* the calls so far are prepare() and then n >= 1 times play()
PreparedThenPlayed(tr) ==
    /\ Len(tr) >= 2
    /\ tr[1] = "prepare"
    /\ \A i \in 2..Len(tr) : tr[i] = "play"

\* C17: play() of a changeText saves the content of the target only while
\* none is saved: after prepare() and any number of play() calls in a row
\* the saved text is the content at the first prepare(), and a prepare()
\* after them puts that content back. (Stated for animations without
\* no_reverse, whose prepare() is not ignored.)
C17_PlayKeepsSavedText ==
    (LoneChangeText /\ ~anims[1].no_reverse) =>
        /\ PreparedThenPlayed(trail) => anims[1].old_text = OriginalText
        /\ (Len(trail) >= 3 /\ trail[Len(trail)] = "prepare"
              /\ PreparedThenPlayed(SubSeq(trail, 1, Len(trail) - 1))) =>
             dom[1].html = OriginalText

----------------------------------------------------------------------------
(* C18 *)

\* C18: play() of a fadeOut puts its transition in flight on the target;
\* a prepare() of it that runs in full, at whatever point of the transition,
\* ends the transition through finish() and then makes the target visible:
\* after it the target is visible with no transition in flight, so nothing
\* can hide it later.
C18_FadeOutPrepare ==
    \A a \in DOMAIN anims :
        anims[a].type = "fadeOut" =>
            LET el == dom[anims[a].target]
            IN /\ Has(events, <<"play", a>>) =>
                     Has(el.queue, "fadeOut")
               /\ FullyPrepared(events, a) =>
                     /\ StartsWith(About(From(events,
                                      Pos(events, <<"prepare", a>>)), a),
                                   <<<<"prepare", a>>, <<"finish", a>>,
                                     <<"precondition", a>>>>)
                     /\ el.visibility = "visible"
                     /\ el.queue = <<>>

----------------------------------------------------------------------------
(* C19 *)

\* the element once every transition in flight on it has ended
Settled(el) == [EndAll(el, el.queue) EXCEPT !.queue = <<>>]

\* the target shows the preconditions of the animation
PreparedVisual(el, an) ==
    CASE an.type \in {"fadeIn", "svg.fadeIn"} -> el.visibility = "hidden"
      [] an.type = "fadeOut" ->
           el.visibility = "visible" /\ el.display = "shown"
      [] an.type = "moveIn" ->
           /\ an.from = "up" => NatTop + el.top + ElHeight <= 0
           /\ an.from = "down" => NatTop + el.top >= WinHeight
           /\ an.from = "left" => NatLeft + el.left + ElWidth <= 0
           /\ an.from = "right" => NatLeft + el.left >= WinWidth
      [] an.type = "svg.move" -> el.transform = "from"
      [] an.type = "changeText" -> el.html = OriginalText
      [] OTHER -> TRUE

\* the target shows the end of the transition of the animation
PlayedVisual(el, an) ==
    CASE an.type \in {"fadeIn", "svg.fadeIn"} ->
           el.visibility = "visible" /\ el.display = "shown" /\ el.opacity = 1
      [] an.type = "fadeOut" ->
           el.visibility = "hidden" \/ el.display = "none"
      [] an.type = "moveIn" -> el.top = 0 /\ el.left = 0
      [] an.type = "svg.move" -> el.transform = "to"
      [] an.type = "changeText" -> el.html = an.text
      [] OTHER -> TRUE

\* the page as init() leaves it
InitVisual ==
    init([anims |-> [a \in DOMAIN anims |->
                       NewAnimation(anims[a].type, anims[a].target, anims[a])],
          dom |-> [t \in DOMAIN dom |-> NewElement],
          events |-> <<>>, threw |-> FALSE], steps).dom

\* no animation of the list sets late_prepare
NoLatePrepare == \A a \in DOMAIN anims : ~anims[a].late_prepare

\* C19: in a well-formed list of animations that are no sets, each on a
\* target of its own, none with late_prepare or no_reverse, after init() and
\* any nextStep() / previousStep() calls: the target of every animation step
\* up to the cursor shows (once the transition in flight has ended) the end of
\* its transition, the target of every step past the cursor shows its
\* preconditions; and whenever the cursor is back on step 0 the page is as
\* init() left it.
C19_VisualStateFollowsCursor ==
    (Initialized /\ NoLatePrepare) =>
        /\ \A i \in 1..(LastIndex - 1) :
              LET an == anims[StepAt(steps, i).animation]
              IN IF i <= currentStep
                 THEN PlayedVisual(Settled(dom[an.target]), an)
                 ELSE PreparedVisual(dom[an.target], an)
        /\ currentStep = 0 => dom = InitVisual

----------------------------------------------------------------------------
(* C20 *)

\* the animation of the step at index i, 0 when the step has none
AnimationAt(i) == StepAt(steps, i).animation

\* target t is the target of the animation step the cursor is on
AtCursor(t, cur) ==
    /\ StepAt(steps, cur).type = "anim"
    /\ anims[AnimationAt(cur)].target = t

\* C20: in a well-formed list without no_reverse animations, after init()
\* every nextStep() / previousStep() leaves at most one transition in
\* flight, on the target of the step the cursor is on, and that stays so
\* while transitions end: nextStep() first calls finish() on the animation of
\* the step it leaves and then plays the one it arrives at, previousStep()
\* prepares the animation under the cursor, which calls its finish().
C20_OneInFlightAtCursor ==
    [][/\ \A t \in DOMAIN dom :
            dom'[t].queue # <<>> =>
                AtCursor(t, currentStep') /\ Len(dom'[t].queue) = 1
       /\ (lastOp'.op = "nextStep"
              /\ StepAt(steps, currentStep).type = "anim") =>
            /\ events'[1] = <<"finish", AnimationAt(currentStep)>>
            /\ dom'[anims[AnimationAt(currentStep)].target].queue = <<>>
            /\ StepAt(steps, currentStep').type = "anim" =>
                  Pos(events', <<"play", AnimationAt(currentStep')>>) > 1
       /\ (lastOp'.op = "previousStep"
              /\ StepAt(steps, currentStep).type = "anim") =>
            /\ StartsWith(events', <<<<"prepare", AnimationAt(currentStep)>>,
                                     <<"finish", AnimationAt(currentStep)>>>>)
            /\ \A t \in DOMAIN dom : dom'[t].queue = <<>>]_vars

\* nextStep() left an animation step whose transition was in flight and
\* started the transition of the next one
C20_Witness ==
    /\ lastOp.op = "nextStep"
    /\ lastOp.from = 1 /\ currentStep = 2
    /\ Len(steps) > 3
    /\ anims[1].type \in {"fadeIn", "moveIn", "svg.fadeIn", "svg.move"}
    /\ events[1] = <<"finish", 1>>
    /\ dom[1].queue = <<>>
    /\ dom[2].queue # <<>>
====
